---- MODULE Spec2Model ----
(***************************************************************************)
(* Model of the Oracle conversation orchestrator (oracle_core/oracle.py),  *)
(* the language-model gateway and its prompt stages                        *)
(* (oracle_core/llm_providers.py) and the retrieval gateway                *)
(* (oracle_core/search_utils.py), and of the two front ends that drive an  *)
(* Oracle: the input loop of cli.py and the Streamlit session of web_ui.py.*)
(*                                                                         *)
(* A text is a sequence of tokens.  A token stands for a fixed run of      *)
(* characters; the concatenation of the tokens is the Python string.       *)
(* Punctuation, whitespace and the letters of the evaluation tags are      *)
(* single-character tokens, so that trimming, the tag regular expression   *)
(* and the substring tests are computed on the text, as the code does.     *)
(***************************************************************************)
EXTENDS Naturals, Sequences, FiniteSets, TLC

\* ------------------------------------------------------------------------
\* Bounds of the model.
\* ------------------------------------------------------------------------
MaxTurns == 2

MaxChunks == 3

MaxItems == 3

MaxBlocks == 3

MaxPieces == 5

MaxCalls == 3

\* ------------------------------------------------------------------------
\* Text primitives (Python str operations used by the code).
\* ------------------------------------------------------------------------
Whitespace == {" ", "\n", "\t"}

RECURSIVE LStrip(_)
LStrip(s) ==
    IF s # <<>> /\ Head(s) \in Whitespace THEN LStrip(Tail(s)) ELSE s

RECURSIVE RStrip(_)
RStrip(s) ==
    IF s # <<>> /\ s[Len(s)] \in Whitespace
    THEN RStrip(SubSeq(s, 1, Len(s) - 1))
    ELSE s

\* str.strip()
Strip(s) == RStrip(LStrip(s))

\* pat in s
Contains(pat, s) ==
    \E i \in 1..(Len(s) + 1) :
        /\ i + Len(pat) - 1 <= Len(s)
        /\ SubSeq(s, i, i + Len(pat) - 1) = pat

\* s[:n]
Prefix(s, n) == SubSeq(s, 1, IF n < Len(s) THEN n ELSE Len(s))

\* str.lower() on one token
LowerTok(c) ==
    CASE c = "Y" -> "y"
      [] c = "E" -> "e"
      [] c = "S" -> "s"
      [] c = "N" -> "n"
      [] c = "O" -> "o"
      [] c = "Q" -> "q"
      [] c = "U" -> "u"
      [] c = "I" -> "i"
      [] c = "T" -> "t"
      [] c = "C" -> "c"
      [] c = "L" -> "l"
      [] c = "A" -> "a"
      [] c = "R" -> "r"
      [] OTHER -> c

Lower(s) == [i \in 1..Len(s) |-> LowerTok(s[i])]

\* Positions of the first "<think>" and of the first "</think>" after it.
FirstIndex(tok, s, from) ==
    IF \E i \in from..Len(s) : s[i] = tok
    THEN CHOOSE i \in from..Len(s) :
             s[i] = tok /\ \A j \in from..(i - 1) : s[j] # tok
    ELSE 0

\* re.sub(r"<think>.*?</think>", "", s, flags=re.DOTALL)
RECURSIVE StripThink(_)
StripThink(s) ==
    LET open == FirstIndex("<think>", s, 1)
        close == IF open = 0 THEN 0 ELSE FirstIndex("</think>", s, open + 1)
    IN  IF open = 0 \/ close = 0
        THEN s
        ELSE SubSeq(s, 1, open - 1) \o StripThink(SubSeq(s, close + 1, Len(s)))

\* ------------------------------------------------------------------------
\* llm_providers.py: call_llm.  The backend's behaviour is the input
\* `reply`: [kind |-> "ok", content |-> text] is generated text,
\* "exc" an exception raised by the backend call (content is its message),
\* "nolib" a client library that cannot be imported, "nonstr" a content
\* that is not a str (content is its str() rendering).
\* A result is [raised |-> BOOLEAN, value |-> text].
\* ------------------------------------------------------------------------
Raise == [raised |-> TRUE, value |-> <<>>]

Return(v) == [raised |-> FALSE, value |-> v]

KnownProviders == {"ollama", "lm_studio"}

raw_response_content(provider, reply) ==
    IF provider = "ollama"
    THEN IF reply.kind = "exc"
         THEN <<"Error communicating with Ollama: ">> \o reply.content
         ELSE reply.content
    ELSE CASE reply.kind = "nolib" ->
                <<"OpenAI library not found. Please install it to use LM Studio.">>
           [] reply.kind = "exc" ->
                <<"Error communicating with LM Studio: ">> \o reply.content
           [] OTHER -> reply.content

cleaned_response_content(raw) == Strip(StripThink(raw))

\* Variant: an unsupported provider is served by the Ollama branch.
call_llm_DefaultsToOllama(messages, model_name, provider, reply) ==
    LET p == IF provider \in KnownProviders THEN provider ELSE "ollama"
    IN  IF p = "ollama" /\ reply.kind = "nolib" THEN Raise
        ELSE IF reply.kind = "nonstr"
             THEN Return(raw_response_content(p, reply))
             ELSE Return(cleaned_response_content(raw_response_content(p, reply)))

\* Variant: the LM Studio branch has no `except Exception` clause.
call_llm_LMStudioUnguarded(messages, model_name, provider, reply) ==
    IF provider \notin KnownProviders THEN Raise
    ELSE IF provider = "ollama" /\ reply.kind = "nolib" THEN Raise
    ELSE IF provider = "lm_studio" /\ reply.kind = "exc" THEN Raise
    ELSE IF reply.kind = "nonstr"
         THEN Return(raw_response_content(provider, reply))
         ELSE Return(cleaned_response_content(raw_response_content(provider, reply)))

\* Variant: the backend call is not wrapped in try/except.
call_llm_Propagates(messages, model_name, provider, reply) ==
    IF provider \notin KnownProviders THEN Raise
    ELSE IF reply.kind \in {"nolib", "exc"} THEN Raise
    ELSE IF reply.kind = "nonstr"
         THEN Return(raw_response_content(provider, reply))
         ELSE Return(cleaned_response_content(raw_response_content(provider, reply)))

call_llm(messages, model_name, provider, reply) ==
    IF provider \notin KnownProviders THEN Raise
    ELSE IF provider = "ollama" /\ reply.kind = "nolib" THEN Raise
    ELSE IF reply.kind = "nonstr"
         THEN Return(raw_response_content(provider, reply))
         ELSE Return(cleaned_response_content(raw_response_content(provider, reply)))

UserMessage(content) == [role |-> "user", content |-> content]

AssistantMessage(content) == [role |-> "assistant", content |-> content]

\* ------------------------------------------------------------------------
\* llm_providers.py: submit_for_evaluation.
\* ------------------------------------------------------------------------
EVALUATION_PROMPT_TEMPLATE(question, response) ==
    <<"You are an AI assistant tasked with evaluating ... Question:", "\n">>
    \o question \o <<"\n", "\n", "Answer:", "\n">> \o response
    \o <<"\n", "\n", "Based on the Question and Answer: ... [Yes]", "\n">>

\* Variant: the tag pattern is not anchored at the end of the text.
AllSpace_Unanchored(s, from) == TRUE

AllSpace(s, from) == \A j \in from..Len(s) : s[j] \in Whitespace

\* The group captured by \[(Yes|No)\]\s*$ (re.IGNORECASE) when the match
\* starts at position i of s, <<>> when there is no match at i.
TagGroupAt(s, i) ==
    IF i + 4 <= Len(s) /\ s[i] = "["
       /\ Lower(SubSeq(s, i + 1, i + 3)) = <<"y", "e", "s">>
       /\ s[i + 4] = "]" /\ AllSpace(s, i + 5)
    THEN SubSeq(s, i + 1, i + 3)
    ELSE IF i + 3 <= Len(s) /\ s[i] = "["
            /\ Lower(SubSeq(s, i + 1, i + 2)) = <<"n", "o">>
            /\ s[i + 3] = "]" /\ AllSpace(s, i + 4)
         THEN SubSeq(s, i + 1, i + 2)
         ELSE <<>>

\* re.search: the group of the leftmost match, <<>> when match is None.
TagSearch(s) ==
    LET hits == {i \in 1..Len(s) : TagGroupAt(s, i) # <<>>}
    IN  IF hits = {} THEN <<>>
        ELSE TagGroupAt(s, CHOOSE i \in hits : \A j \in hits : i <= j)

EvaluationVerdict(evaluation_result_content) ==
    LET group == TagSearch(Strip(evaluation_result_content))
    IN  IF group # <<>> THEN Lower(group) = <<"y", "e", "s">> ELSE FALSE

\* Result value is the boolean verdict.
submit_for_evaluation(question, response, model_name, provider, reply) ==
    LET evaluation_messages ==
            <<UserMessage(EVALUATION_PROMPT_TEMPLATE(question, response))>>
        r == call_llm(evaluation_messages, model_name, provider, reply)
    IN  IF r.raised THEN [raised |-> TRUE, value |-> FALSE]
        ELSE [raised |-> FALSE, value |-> EvaluationVerdict(r.value)]

\* ------------------------------------------------------------------------
\* llm_providers.py: refactor_search_input.
\* ------------------------------------------------------------------------
QueryLabel == "Optimized Search Query:"

SEARCH_ENGINE_OPTIMIZATION_PROMPT_TEMPLATE(user_input) ==
    <<"You are an expert at crafting effective search engine queries. ",
      "User's information request: ", "\"">> \o user_input
    \o <<"\"", "\n", "... Output *only* the optimized search query ...",
         "\n", QueryLabel>>

LastIndex(tok, s) ==
    IF \E i \in 1..Len(s) : s[i] = tok
    THEN CHOOSE i \in 1..Len(s) :
             s[i] = tok /\ \A j \in (i + 1)..Len(s) : s[j] # tok
    ELSE 0

FirstLabelIndex(s) ==
    CHOOSE i \in 0..Len(s) :
        /\ i = 0 => \A j \in 1..Len(s) : s[j] # QueryLabel
        /\ i > 0 => s[i] = QueryLabel /\ \A j \in 1..(i - 1) : s[j] # QueryLabel

\* Variant: s.split(label, 1)[1], the text after the first label.
AfterLastLabel_AfterFirst(s) == SubSeq(s, FirstLabelIndex(s) + 1, Len(s))

\* s.split(label)[-1]
AfterLastLabel(s) == SubSeq(s, LastIndex(QueryLabel, s) + 1, Len(s))

refactor_search_input(user_input, model_name, provider, reply) ==
    LET refactor_messages ==
            <<UserMessage(SEARCH_ENGINE_OPTIMIZATION_PROMPT_TEMPLATE(user_input))>>
        r == call_llm(refactor_messages, model_name, provider, reply)
    IN  IF r.raised THEN Raise
        ELSE IF Contains(<<QueryLabel>>, r.value)
             THEN Return(Strip(AfterLastLabel(r.value)))
             ELSE Return(Strip(r.value))

\* ------------------------------------------------------------------------
\* llm_providers.py: process_search_result_with_llm.
\* ------------------------------------------------------------------------
PROCESS_SEARCH_RESULT_PROMPT_TEMPLATE(information_needed, search_result_summary) ==
    <<"You have been provided with a summary ... ",
      "User's Original Query: ", "\"">> \o information_needed
    \o <<"\"", "\n", "\n", "Summary of Web Search Results:", "\n">>
    \o search_result_summary
    \o <<"\n", "\n", "Based *only* on the provided summary ...", "\n">>

process_search_result_with_llm(search_result, information_needed, model_name, provider, reply) ==
    LET process_messages ==
            <<UserMessage(PROCESS_SEARCH_RESULT_PROMPT_TEMPLATE(
                              information_needed, search_result))>>
    IN  call_llm(process_messages, model_name, provider, reply)

\* ------------------------------------------------------------------------
\* llm_providers.py: summarize_search_results.  Lengths are counted in
\* tokens.
\* ------------------------------------------------------------------------
DefaultMaxLength == 1500

FallbackLength == 500

TruncationMarker == <<"\n", "... [Results Truncated] ...">>

\* Variant: the truncation test is `>=`.
TruncatedResults_AtLeast(search_results_text, max_length) ==
    IF Len(search_results_text) >= max_length
    THEN Prefix(search_results_text, max_length) \o TruncationMarker
    ELSE search_results_text

\* search_results_text after the truncation of lines 261-263.
TruncatedResults(search_results_text, max_length) ==
    IF Len(search_results_text) > max_length
    THEN Prefix(search_results_text, max_length) \o TruncationMarker
    ELSE search_results_text

SUMMARIZATION_PROMPT_TEMPLATE(query) ==
    <<"You are provided with a series of search result snippets ... ",
      "Original User Query: ", "\"">> \o query
    \o <<"\"", "\n", "\n", "Review all the provided search result snippets ...",
         "\n">>

full_summarization_prompt(search_results_text, query, max_length) ==
    SUMMARIZATION_PROMPT_TEMPLATE(query)
    \o <<"\n", "\n", "Search Results to Summarize:", "\n">>
    \o TruncatedResults(search_results_text, max_length)

summarize_search_results(search_results_text, query, model_name, provider, max_length, reply) ==
    LET text == TruncatedResults(search_results_text, max_length)
        summarize_messages ==
            <<UserMessage(full_summarization_prompt(search_results_text, query,
                                                    max_length))>>
        r == call_llm(summarize_messages, model_name, provider, reply)
    IN  IF r.raised
        THEN Return(IF Len(text) > FallbackLength
                    THEN Prefix(text, FallbackLength) \o <<"...">>
                    ELSE text)
        ELSE r

\* ------------------------------------------------------------------------
\* search_utils.py: search_on_the_web.  A raw item is
\* [isdict |-> BOOLEAN, d |-> function from the keys present to texts];
\* the backend's behaviour is [kind |-> "ok", items |-> sequence of raw
\* items] or [kind |-> "exc", items |-> <<>>] (engine.search raised).
\* ------------------------------------------------------------------------
NUM_OF_PAGES == 2

SupportedEngines == {"google", "bing", "yahoo", "duckduckgo", "brave"}

\* Variant: the default branch instantiates another engine.
engine_DefaultsToBing(search_engine_name) ==
    IF search_engine_name \in SupportedEngines THEN search_engine_name
    ELSE "bing"

\* The backend class instantiated for an engine name (lines 20-32).
engine(search_engine_name) ==
    IF search_engine_name \in SupportedEngines THEN search_engine_name
    ELSE "google"

\* dict.get(key, default)
Get(d, key, default) == IF key \in DOMAIN d THEN d[key] ELSE default

title(item) == Get(item.d, "title", <<"No title">>)

snippet(item) == Get(item.d, "text", Get(item.d, "snippet", <<"No snippet">>))

link(item) == Get(item.d, "link", Get(item.d, "url", <<"No URL">>))

\* Line 47 and line 52: the item is appended to results_list.
Retained(item) ==
    item.isdict /\ snippet(item) # <<>> /\ snippet(item) # <<"No snippet">>

formatted_result(i, item) ==
    <<"Source ", ToString(i + 1), ":", "\n", "Title: ">> \o title(item)
    \o <<"\n", "URL: ">> \o link(item)
    \o <<"\n", "Snippet: ">> \o snippet(item) \o <<"\n", "---">>

\* Variant: a block is numbered by its rank among the retained items.
RECURSIVE results_list_Renumbered(_, _)
results_list_Renumbered(search_items, n) ==
    IF n = 0 THEN <<>>
    ELSE LET rest == results_list_Renumbered(search_items, n - 1)
         IN  IF Retained(search_items[n])
             THEN Append(rest, formatted_result(Len(rest), search_items[n]))
             ELSE rest

\* results_list after the loop over enumerate(search_items); i is 0-based.
RECURSIVE results_list(_, _)
results_list(search_items, n) ==
    IF n = 0 THEN <<>>
    ELSE LET rest == results_list(search_items, n - 1)
         IN  IF Retained(search_items[n])
             THEN Append(rest, formatted_result(n - 1, search_items[n]))
             ELSE rest

\* "\n\n".join(blocks)
RECURSIVE Join(_)
Join(blocks) ==
    IF blocks = <<>> THEN <<>>
    ELSE IF Len(blocks) = 1 THEN blocks[1]
    ELSE blocks[1] \o <<"\n", "\n">> \o Join(Tail(blocks))

NoResultsMessage(query, search_engine_name) ==
    <<"No results found", " by ", search_engine_name, " for the query: ", "'">>
    \o query \o <<"'">>

NoUsableContentMessage(query, search_engine_name) ==
    <<"Search returned results, but ", "no ", "usable ", "text content ",
      "(title, snippet, link) ", "could be extracted", " for query: ", "'">>
    \o query \o <<"'", " with ", search_engine_name, ".">>

SearchServiceErrorMessage(query, search_engine_name) ==
    <<"Not able to receive search service", ": ", search_engine_name,
      " results due to an error. Query: ", "'">> \o query \o <<"'">>

\* Variant: the test for an empty item list is missing.
search_on_the_web_NoEmptyTest(query, search_engine_name, backend) ==
    IF backend.kind = "exc"
    THEN SearchServiceErrorMessage(query, search_engine_name)
    ELSE LET results == results_list(backend.items, Len(backend.items))
         IN  IF results # <<>>
             THEN Join(results)
             ELSE NoUsableContentMessage(query, search_engine_name)

search_on_the_web(query, search_engine_name, backend) ==
    IF backend.kind = "exc"
    THEN SearchServiceErrorMessage(query, search_engine_name)
    ELSE IF backend.items = <<>>
    THEN NoResultsMessage(query, search_engine_name)
    ELSE LET results == results_list(backend.items, Len(backend.items))
         IN  IF results # <<>>
             THEN Join(results)
             ELSE NoUsableContentMessage(query, search_engine_name)

\* Variant: the failure check tests the service-error phrase only.
SearchFailed_ErrorPhraseOnly(raw_search_results) ==
    Contains(<<"Not able to receive search service">>, raw_search_results)

\* ------------------------------------------------------------------------
\* oracle.py: the failure check of Oracle.get_response, lines 48-50.
\* ------------------------------------------------------------------------
SearchFailed(raw_search_results) ==
    \/ Contains(<<"Not able to receive search service">>, raw_search_results)
    \/ Contains(<<"No results found">>, raw_search_results)
    \/ Contains(<<"no ", "text content ", "could be extracted">>,
                raw_search_results)

\* ------------------------------------------------------------------------
\* Inputs of the model: user texts, backend replies, retrieval outcomes.
\* ------------------------------------------------------------------------
None == "<None>"

Prompts == {<<"capital of France?">>, <<"weather in London?">>}

Replies ==
    { [kind |-> "ok", content |-> <<"Paris">>],
      [kind |-> "ok",
       content |-> <<"<think>", "hm", "</think>", "\n", "fine", "\n",
                     "[", "Y", "e", "s", "]", "\n">>],
      [kind |-> "ok", content |-> <<"wrong", "\n", "[", "N", "o", "]">>],
      [kind |-> "ok", content |-> <<QueryLabel, " ", "No results found">>],
      [kind |-> "exc", content |-> <<"connection refused">>] }

ItemGood ==
    [isdict |-> TRUE,
     d |-> ("title" :> <<"Paris - Wikipedia">>)
           @@ ("text" :> <<"Paris is the capital of France">>)
           @@ ("link" :> <<"https://en.wikipedia.org/wiki/Paris">>)]

ItemNoSnippet ==
    [isdict |-> TRUE, d |-> ("title" :> <<"Paris - Wikipedia">>)]

ItemQuotingSentinel ==
    [isdict |-> TRUE,
     d |-> ("title" :> <<"Search help">>)
           @@ ("snippet" :> <<"No results found", " is shown when ...">>)
           @@ ("url" :> <<"https://example.org/help">>)]

SearchBackends ==
    { [kind |-> "exc", items |-> <<>>],
      [kind |-> "ok", items |-> <<>>],
      [kind |-> "ok", items |-> <<ItemNoSnippet>>],
      [kind |-> "ok", items |-> <<ItemNoSnippet, ItemGood>>],
      [kind |-> "ok", items |-> <<ItemQuotingSentinel>>] }

NoBackend == [kind |-> "none", items |-> <<>>]

Providers == {"ollama", "lm_studio", "vllm"}

SearchEngines == {None, "", "google", "altavista"}

\* ------------------------------------------------------------------------
\* State.
\* ------------------------------------------------------------------------
VARIABLES
    model_name, llm_provider, search_engine, messages,   \* Oracle fields
    pc,                      \* the blocking call get_response is waiting in
    user_prompt, llm_response_content, is_sufficient, optimized_query,
    raw_search_results, summarized_results, final_answer, \* its locals
    calls,                   \* stage calls made by the turn, with arguments
    search_backend,          \* what the search backend did in the turn
    pre,                     \* messages when get_response was called
    outcome,                 \* "none", "running", "returned", "raised"
    turns,                   \* get_response calls made so far
    clears,                  \* consecutive clear_context calls just made
    cleared_before,          \* clear_context was the call before this turn
    since_clear,             \* get_response calls since __init__/clear_context
    raises,                  \* get_response calls that raised since then
    eval_probe,              \* harness of submit_for_evaluation
    search_probe,            \* harness of search_on_the_web
    llm_probe,               \* harness of call_llm
    summary_probe,           \* harness of summarize_search_results
    refine_probe,            \* harness of refactor_search_input
    think_probe,             \* harness of the post-processing of call_llm
    instances,               \* two Oracle objects side by side
    ui,                      \* the Streamlit session of web_ui.py
    cli                      \* the input loop of cli.py

config == <<model_name, llm_provider, search_engine>>

locals == <<user_prompt, llm_response_content, is_sufficient, optimized_query,
            raw_search_results, summarized_results, final_answer>>

oracleVars == <<model_name, llm_provider, search_engine, messages, pc,
                user_prompt, llm_response_content, is_sufficient,
                optimized_query, raw_search_results, summarized_results,
                final_answer, calls, search_backend, pre, outcome, turns,
                clears, cleared_before, since_clear, raises>>

\* The state of the other front ends and harnesses.
extra == <<refine_probe, think_probe, instances, ui, cli>>

vars == <<oracleVars, eval_probe, search_probe, llm_probe, summary_probe, extra>>

Call(fn, args) == [fn |-> fn, args |-> args]

\* Oracle.__init__
OracleInit(m, p, e) ==
    /\ model_name = m
    /\ llm_provider = p
    /\ search_engine = e
    /\ messages = <<>>
    /\ pc = "idle"
    /\ user_prompt = <<>>
    /\ llm_response_content = <<>>
    /\ is_sufficient = FALSE
    /\ optimized_query = <<>>
    /\ raw_search_results = <<>>
    /\ summarized_results = <<>>
    /\ final_answer = <<>>
    /\ calls = <<>>
    /\ search_backend = NoBackend
    /\ pre = <<>>
    /\ outcome = "none"
    /\ turns = 0
    /\ clears = 0
    /\ cleared_before = FALSE
    /\ since_clear = 0
    /\ raises = 0

ProbeIdle == [phase |-> "unused"]

ExtraIdle ==
    /\ refine_probe = ProbeIdle
    /\ think_probe = ProbeIdle
    /\ instances = ProbeIdle
    /\ ui = ProbeIdle
    /\ cli = ProbeIdle

Init ==
    /\ \E p \in Providers, e \in SearchEngines : OracleInit("llama3.2", p, e)
    /\ ExtraIdle
    /\ eval_probe = ProbeIdle
    /\ search_probe = ProbeIdle
    /\ llm_probe = ProbeIdle
    /\ summary_probe = ProbeIdle

\* ------------------------------------------------------------------------
\* oracle.py: Oracle.get_response, one action per blocking call.  Each
\* action runs the code from the return of one backend call up to the next
\* backend call (or to the return of get_response).
\* ------------------------------------------------------------------------
probes == <<eval_probe, search_probe, llm_probe, summary_probe, extra>>

\* Variant: `if self.search_engine is not None:`.
SearchEnabled_IsNotNone == search_engine # None

\* `if self.search_engine:` (line 25)
SearchEnabled == search_engine \notin {None, ""}

\* Variant: only the newest message is handed to the model.
MessagesPassed_LastOnly(msgs) == SubSeq(msgs, Len(msgs), Len(msgs))

\* The message list handed to the direct-answer call (line 23).
MessagesPassed(msgs) == msgs

\* Variant: the oldest turn is dropped when the answer is appended.
WithAssistantTurn_DropsOldest(msgs, answer) ==
    Append(Tail(msgs), AssistantMessage(answer))

\* Line 75: the assistant turn is appended.
WithAssistantTurn(msgs, answer) == Append(msgs, AssistantMessage(answer))

\* Lines 75-76.
Finish(answer) ==
    /\ final_answer' = answer
    /\ messages' = WithAssistantTurn(messages, answer)
    /\ pc' = "idle"
    /\ outcome' = "returned"
    /\ UNCHANGED raises

\* An exception leaves get_response; nothing is appended.
RaiseToCaller ==
    /\ pc' = "idle"
    /\ outcome' = "raised"
    /\ raises' = raises + 1
    /\ UNCHANGED <<messages, final_answer>>

Continue(next) ==
    /\ pc' = next
    /\ UNCHANGED <<messages, final_answer, outcome, raises>>

\* Line 21: the user turn is appended, then call_llm is entered.
get_response(user_text) ==
    /\ pc = "idle"
    /\ turns < MaxTurns
    /\ messages' = Append(messages, UserMessage(user_text))
    /\ pc' = "call_llm"
    /\ user_prompt' = user_text
    /\ llm_response_content' = <<>>
    /\ is_sufficient' = FALSE
    /\ optimized_query' = <<>>
    /\ raw_search_results' = <<>>
    /\ summarized_results' = <<>>
    /\ final_answer' = <<>>
    /\ calls' = <<>>
    /\ search_backend' = NoBackend
    /\ pre' = messages
    /\ outcome' = "running"
    /\ turns' = turns + 1
    /\ clears' = 0
    /\ cleared_before' = (clears > 0)
    /\ since_clear' = since_clear + 1
    /\ UNCHANGED <<config, raises, probes>>

\* Lines 23-25 and 71-76.
DirectAnswerStep ==
    /\ pc = "call_llm"
    /\ \E reply \in Replies :
         LET r == call_llm(MessagesPassed(messages), model_name, llm_provider, reply)
         IN  /\ calls' = Append(calls, Call("call_llm",
                     <<MessagesPassed(messages), model_name, llm_provider>>))
             /\ IF r.raised
                THEN RaiseToCaller /\ UNCHANGED llm_response_content
                ELSE /\ llm_response_content' = r.value
                     /\ IF SearchEnabled
                        THEN Continue("submit_for_evaluation")
                        ELSE Finish(r.value)
    /\ UNCHANGED <<config, user_prompt, is_sufficient, optimized_query,
                   raw_search_results, summarized_results, search_backend,
                   pre, turns, clears, cleared_before, since_clear, probes>>

\* Variant: the verdict test is inverted (`if not is_sufficient:`).
EvaluationStep_InvertedVerdict ==
    /\ pc = "submit_for_evaluation"
    /\ \E reply \in Replies :
         LET r == submit_for_evaluation(user_prompt, llm_response_content,
                                        model_name, llm_provider, reply)
         IN  /\ calls' = Append(calls, Call("submit_for_evaluation",
                     <<user_prompt, llm_response_content, model_name, llm_provider>>))
             /\ IF r.raised
                THEN RaiseToCaller /\ UNCHANGED is_sufficient
                ELSE /\ is_sufficient' = r.value
                     /\ IF ~r.value
                        THEN Finish(llm_response_content)
                        ELSE Continue("refactor_search_input")
    /\ UNCHANGED <<config, user_prompt, llm_response_content, optimized_query,
                   raw_search_results, summarized_results, search_backend,
                   pre, turns, clears, cleared_before, since_clear, probes>>

\* Lines 27-38.
EvaluationStep ==
    /\ pc = "submit_for_evaluation"
    /\ \E reply \in Replies :
         LET r == submit_for_evaluation(user_prompt, llm_response_content,
                                        model_name, llm_provider, reply)
         IN  /\ calls' = Append(calls, Call("submit_for_evaluation",
                     <<user_prompt, llm_response_content, model_name, llm_provider>>))
             /\ IF r.raised
                THEN RaiseToCaller /\ UNCHANGED is_sufficient
                ELSE /\ is_sufficient' = r.value
                     /\ IF r.value
                        THEN Finish(llm_response_content)
                        ELSE Continue("refactor_search_input")
    /\ UNCHANGED <<config, user_prompt, llm_response_content, optimized_query,
                   raw_search_results, summarized_results, search_backend,
                   pre, turns, clears, cleared_before, since_clear, probes>>

\* Lines 41-42.
RefineStep ==
    /\ pc = "refactor_search_input"
    /\ \E reply \in Replies :
         LET r == refactor_search_input(user_prompt, model_name, llm_provider, reply)
         IN  /\ calls' = Append(calls, Call("refactor_search_input",
                     <<user_prompt, model_name, llm_provider>>))
             /\ IF r.raised
                THEN RaiseToCaller /\ UNCHANGED optimized_query
                ELSE /\ optimized_query' = r.value
                     /\ Continue("search_on_the_web")
    /\ UNCHANGED <<config, user_prompt, llm_response_content, is_sufficient,
                   raw_search_results, summarized_results, search_backend,
                   pre, turns, clears, cleared_before, since_clear, probes>>

\* Lines 45-54.
SearchStep ==
    /\ pc = "search_on_the_web"
    /\ \E backend \in SearchBackends :
         LET text == search_on_the_web(optimized_query, search_engine, backend)
         IN  /\ calls' = Append(calls, Call("search_on_the_web",
                     <<optimized_query, search_engine>>))
             /\ search_backend' = backend
             /\ raw_search_results' = text
             /\ IF SearchFailed(text)
                THEN Finish(llm_response_content)
                ELSE Continue("summarize_search_results")
    /\ UNCHANGED <<config, user_prompt, llm_response_content, is_sufficient,
                   optimized_query, summarized_results, pre, turns, clears,
                   cleared_before, since_clear, probes>>

\* Variant: the summarizer is given the refined query.
SummarizeStep_RefinedQuery ==
    /\ pc = "summarize_search_results"
    /\ \E reply \in Replies :
         LET r == summarize_search_results(raw_search_results, optimized_query,
                     model_name, llm_provider, DefaultMaxLength, reply)
         IN  /\ calls' = Append(calls, Call("summarize_search_results",
                     <<raw_search_results, optimized_query, model_name, llm_provider>>))
             /\ summarized_results' = r.value
             /\ Continue("process_search_result_with_llm")
    /\ UNCHANGED <<config, user_prompt, llm_response_content, is_sufficient,
                   optimized_query, raw_search_results, search_backend, pre,
                   turns, clears, cleared_before, since_clear, probes>>

\* Lines 56-62.
SummarizeStep ==
    /\ pc = "summarize_search_results"
    /\ \E reply \in Replies :
         LET r == summarize_search_results(raw_search_results, user_prompt,
                     model_name, llm_provider, DefaultMaxLength, reply)
         IN  /\ calls' = Append(calls, Call("summarize_search_results",
                     <<raw_search_results, user_prompt, model_name, llm_provider>>))
             /\ summarized_results' = r.value
             /\ Continue("process_search_result_with_llm")
    /\ UNCHANGED <<config, user_prompt, llm_response_content, is_sufficient,
                   optimized_query, raw_search_results, search_backend, pre,
                   turns, clears, cleared_before, since_clear, probes>>

\* Variant: the synthesizer is called with the default provider.
SynthesizeStep_DefaultProvider ==
    /\ pc = "process_search_result_with_llm"
    /\ \E reply \in Replies :
         LET r == process_search_result_with_llm(summarized_results, user_prompt,
                     model_name, "ollama", reply)
         IN  /\ calls' = Append(calls, Call("process_search_result_with_llm",
                     <<summarized_results, user_prompt, model_name, "ollama">>))
             /\ IF r.raised THEN RaiseToCaller ELSE Finish(r.value)
    /\ UNCHANGED <<config, user_prompt, llm_response_content, is_sufficient,
                   optimized_query, raw_search_results, summarized_results,
                   search_backend, pre, turns, clears, cleared_before,
                   since_clear, probes>>

\* Lines 65-70 and 75-76.
SynthesizeStep ==
    /\ pc = "process_search_result_with_llm"
    /\ \E reply \in Replies :
         LET r == process_search_result_with_llm(summarized_results, user_prompt,
                     model_name, llm_provider, reply)
         IN  /\ calls' = Append(calls, Call("process_search_result_with_llm",
                     <<summarized_results, user_prompt, model_name, llm_provider>>))
             /\ IF r.raised THEN RaiseToCaller ELSE Finish(r.value)
    /\ UNCHANGED <<config, user_prompt, llm_response_content, is_sufficient,
                   optimized_query, raw_search_results, summarized_results,
                   search_backend, pre, turns, clears, cleared_before,
                   since_clear, probes>>

\* Variant: clear_context keeps the first exchange.
Cleared_KeepsFirstExchange(msgs) ==
    SubSeq(msgs, 1, IF Len(msgs) < 2 THEN Len(msgs) ELSE 2)

\* Variant: clear_context removes the last exchange only.
Cleared_DropsLastExchange(msgs) ==
    SubSeq(msgs, 1, IF Len(msgs) < 2 THEN 0 ELSE Len(msgs) - 2)

\* oracle.py: Oracle.clear_context (lines 78-80).
Cleared(msgs) == <<>>

clear_context ==
    /\ pc = "idle"
    /\ messages' = Cleared(messages)
    /\ clears' = IF clears < 2 THEN clears + 1 ELSE clears
    /\ since_clear' = 0
    /\ raises' = 0
    /\ UNCHANGED <<config, pc, locals, calls, search_backend, pre, outcome,
                   turns, cleared_before, probes>>

Next ==
    \/ \E user_text \in Prompts : get_response(user_text)
    \/ DirectAnswerStep
    \/ EvaluationStep
    \/ RefineStep
    \/ SearchStep
    \/ SummarizeStep
    \/ SynthesizeStep
    \/ clear_context

Spec == Init /\ [][Next]_vars

\* ------------------------------------------------------------------------
\* submit_for_evaluation on its own: the raw backend output is built from
\* up to MaxChunks chunks, then the function is applied to it.
\* ------------------------------------------------------------------------
EvalChunks ==
    { <<"[", "Y", "e", "s", "]">>, <<"[", "y", "E", "S", "]">>,
      <<"[", "N", "o", "]">>, <<"[", "n", "O", "]">>,
      <<"[">>, <<"]">>, <<"Y", "e", "s">>, <<"N", "o">>,
      <<" ">>, <<"\n">>, <<"ok">>, <<"<think>">>, <<"</think>">> }

EvalInit ==
    /\ \E p \in KnownProviders : OracleInit("llama3.2", p, "google")
    /\ ExtraIdle
    /\ \E k \in {"ok", "exc"} :
         eval_probe = [phase |-> "build", kind |-> k, content |-> <<>>,
                       chunks |-> 0, output |-> <<>>, raised |-> FALSE,
                       verdict |-> FALSE]
    /\ search_probe = ProbeIdle
    /\ llm_probe = ProbeIdle
    /\ summary_probe = ProbeIdle

EvalAppendChunk(c) ==
    /\ eval_probe.phase = "build"
    /\ eval_probe.chunks < MaxChunks
    /\ eval_probe' = [eval_probe EXCEPT !.content = @ \o c, !.chunks = @ + 1]
    /\ UNCHANGED <<oracleVars, extra, search_probe, llm_probe, summary_probe>>

EvalRun ==
    /\ eval_probe.phase = "build"
    /\ LET reply == [kind |-> eval_probe.kind, content |-> eval_probe.content]
           question == <<"capital of France?">>
           response == <<"Paris">>
           out == call_llm(<<UserMessage(EVALUATION_PROMPT_TEMPLATE(question, response))>>,
                           model_name, llm_provider, reply)
           r == submit_for_evaluation(question, response, model_name,
                                      llm_provider, reply)
       IN  eval_probe' = [eval_probe EXCEPT !.phase = "done",
                                            !.output = out.value,
                                            !.raised = r.raised,
                                            !.verdict = r.value]
    /\ UNCHANGED <<oracleVars, extra, search_probe, llm_probe, summary_probe>>

EvalNext ==
    \/ \E c \in EvalChunks : EvalAppendChunk(c)
    \/ EvalRun

SpecEval == EvalInit /\ [][EvalNext]_vars

\* ------------------------------------------------------------------------
\* search_on_the_web on its own: the raw item list is built from up to
\* MaxItems items, then the function is applied with a backend that returns
\* the list or raises.
\* ------------------------------------------------------------------------
ItemNotADict == [isdict |-> FALSE, d |-> <<>>]

ItemEmptyTextWithSnippet ==
    [isdict |-> TRUE,
     d |-> ("title" :> <<"Paris">>) @@ ("text" :> <<>>)
           @@ ("snippet" :> <<"City in France">>)
           @@ ("url" :> <<"https://example.org/paris">>)]

ItemPlaceholderSnippet ==
    [isdict |-> TRUE, d |-> ("text" :> <<"No snippet">>)]

ItemSnippetOnly ==
    [isdict |-> TRUE, d |-> ("snippet" :> <<"France's capital is Paris">>)]

ProbeItems ==
    {ItemGood, ItemNoSnippet, ItemQuotingSentinel, ItemNotADict,
     ItemEmptyTextWithSnippet, ItemPlaceholderSnippet, ItemSnippetOnly}

ProbeQueries == {<<"capital", " ", "France">>, <<"No results found">>, <<>>}

ProbeEngines == {"google", "duckduckgo", "altavista"}

SearchInit ==
    /\ OracleInit("llama3.2", "ollama", "google")
    /\ ExtraIdle
    /\ eval_probe = ProbeIdle
    /\ llm_probe = ProbeIdle
    /\ summary_probe = ProbeIdle
    /\ \E q \in ProbeQueries, e \in ProbeEngines :
         search_probe = [phase |-> "build", query |-> q, engine_name |-> e,
                         items |-> <<>>, kind |-> "none", searched |-> "none",
                         result |-> <<>>, again |-> <<>>]

SearchAddItem(item) ==
    /\ search_probe.phase = "build"
    /\ Len(search_probe.items) < MaxItems
    /\ search_probe' = [search_probe EXCEPT !.items = Append(@, item)]
    /\ UNCHANGED <<oracleVars, extra, eval_probe, llm_probe, summary_probe>>

SearchRun(kind) ==
    /\ search_probe.phase = "build"
    /\ search_probe' =
         [search_probe EXCEPT
            !.phase = "done",
            !.kind = kind,
            !.searched = engine(search_probe.engine_name),
            !.result = search_on_the_web(search_probe.query,
                           search_probe.engine_name,
                           [kind |-> kind, items |-> search_probe.items])]
    /\ UNCHANGED <<oracleVars, extra, eval_probe, llm_probe, summary_probe>>

\* Variant: results_list is kept from one call to the next.
SearchRunAgain_KeepsResultsList ==
    /\ search_probe.phase = "done"
    /\ LET blocks == results_list(search_probe.items, Len(search_probe.items))
       IN  search_probe' =
             [search_probe EXCEPT
                !.phase = "again",
                !.again = IF search_probe.kind = "ok" /\ blocks # <<>>
                          THEN Join(blocks \o blocks)
                          ELSE search_on_the_web(search_probe.query,
                                   search_probe.engine_name,
                                   [kind |-> search_probe.kind,
                                    items |-> search_probe.items])]
    /\ UNCHANGED <<oracleVars, extra, eval_probe, llm_probe, summary_probe>>

\* A second call with the same query and engine name, for which the
\* backend returns the same raw items in the same order.
SearchRunAgain ==
    /\ search_probe.phase = "done"
    /\ search_probe' =
         [search_probe EXCEPT
            !.phase = "again",
            !.again = search_on_the_web(search_probe.query,
                          search_probe.engine_name,
                          [kind |-> search_probe.kind,
                           items |-> search_probe.items])]
    /\ UNCHANGED <<oracleVars, extra, eval_probe, llm_probe, summary_probe>>

SearchNext ==
    \/ \E item \in ProbeItems : SearchAddItem(item)
    \/ \E kind \in {"ok", "exc"} : SearchRun(kind)
    \/ SearchRunAgain

SpecSearch == SearchInit /\ [][SearchNext]_vars

\* ------------------------------------------------------------------------
\* Properties.
\* ------------------------------------------------------------------------
\* get_response has just returned (no clear_context since).
Returned == pc = "idle" /\ outcome = "returned" /\ clears = 0

\* get_response has just returned or raised.
TurnOver == pc = "idle" /\ outcome \in {"returned", "raised"} /\ clears = 0

Fns == [i \in 1..Len(calls) |-> calls[i].fn]

Invoked(fn) == \E i \in 1..Len(calls) : calls[i].fn = fn

NoSearchEngineConfigured == search_engine = None \/ search_engine = ""

\* C1: when get_response(x) returns r, the conversation is the conversation
\* before the call followed by exactly {user, x} and {assistant, r}; the
\* earlier turns are unchanged, on every path.
C1_TurnAppendsUserThenAssistant ==
    Returned =>
        messages = pre \o <<[role |-> "user", content |-> user_prompt],
                            [role |-> "assistant", content |-> final_answer]>>

\* A second turn that went through retrieval, summary and synthesis returned.
C1_Witness ==
    /\ Returned
    /\ pre # <<>>
    /\ Invoked("process_search_result_with_llm")
    /\ final_answer # llm_response_content

\* What the backend did in this turn's retrieval call.
RetrievalEmpty == search_backend.kind = "ok" /\ search_backend.items = <<>>

RetrievalRaised == search_backend.kind = "exc"

RetrievalUnusable ==
    /\ search_backend.kind = "ok"
    /\ search_backend.items # <<>>
    /\ \A i \in 1..Len(search_backend.items) :
          LET item == search_backend.items[i]
          IN  ~item.isdict \/ snippet(item) \in {<<>>, <<"No snippet">>}

FellBackToDirectAnswer ==
    /\ final_answer = llm_response_content
    /\ ~Invoked("summarize_search_results")
    /\ ~Invoked("process_search_result_with_llm")

\* C2: search engine configured, verdict insufficient, and the retrieval
\* call returned zero raw items or the backend raised: get_response returns
\* exactly the direct answer, and neither the Summarizer nor the Synthesizer
\* is invoked in that turn.
C2_FallbackOnEmptyOrRaisingRetrieval ==
    (TurnOver /\ ~NoSearchEngineConfigured /\ Invoked("submit_for_evaluation")
       /\ ~is_sufficient /\ (RetrievalEmpty \/ RetrievalRaised))
    => (Returned /\ FellBackToDirectAnswer
        /\ messages[Len(messages)].content = llm_response_content)

C2_Witness ==
    /\ Returned
    /\ RetrievalEmpty
    /\ ~is_sufficient
    /\ Contains(<<"No results found">>, raw_search_results)
    /\ ~Contains(<<"No results found">>, optimized_query)
    /\ final_answer = llm_response_content

\* C3: search engine configured, verdict insufficient, and the retrieval
\* call returned a non-empty list of raw items none of which carries a
\* usable snippet: get_response falls back to the direct answer and never
\* invokes the Summarizer or the Synthesizer.
C3_FallbackOnUnusableRetrieval ==
    (pc = "idle" /\ outcome # "none" /\ clears = 0 /\ ~NoSearchEngineConfigured
       /\ ~is_sufficient /\ RetrievalUnusable)
    => (Returned /\ FellBackToDirectAnswer)

\* C6: with no search engine configured, a get_response call on an empty
\* conversation makes exactly one generation call and no other stage call;
\* it returns the generated answer unchanged and leaves a conversation of
\* length 2.
C6_NoSearchMakesOneGenerationCall ==
    (TurnOver /\ NoSearchEngineConfigured /\ pre = <<>>)
    => /\ Fns = <<"call_llm">>
       /\ Returned =>
            /\ final_answer = llm_response_content
            /\ Len(messages) = 2
            /\ messages[2] = AssistantMessage(llm_response_content)

C6_Witness ==
    /\ Returned
    /\ search_engine = None
    /\ pre = <<>>
    /\ Len(messages) = 2
    /\ Fns = <<"call_llm">>

\* C7: with a search engine configured and a sufficient verdict, the turn
\* makes exactly one generation call plus one evaluation call, the Refiner,
\* Retrieval Gateway, Summarizer and Synthesizer are never invoked, and the
\* final answer is the direct answer.
C7_SufficientVerdictStopsTheTurn ==
    (TurnOver /\ ~NoSearchEngineConfigured /\ is_sufficient)
    => /\ Returned
       /\ Fns = <<"call_llm", "submit_for_evaluation">>
       /\ final_answer = llm_response_content
       /\ search_backend = NoBackend

C7_Witness ==
    /\ Returned
    /\ search_engine = "google"
    /\ is_sufficient
    /\ Fns = <<"call_llm", "submit_for_evaluation">>

\* C8: after any sequence of turns, clear_context followed by one
\* get_response(x) yields a conversation of length 2 (user turn, assistant
\* turn), and the message list passed to that turn's generation call holds
\* only the new user turn.
C8_NoMemoryAfterClear ==
    /\ (cleared_before /\ Len(calls) >= 1 /\ clears = 0)
         => calls[1].args[1] = <<UserMessage(user_prompt)>>
    /\ (cleared_before /\ Returned)
         => /\ Len(messages) = 2
            /\ messages[1] = UserMessage(user_prompt)
            /\ messages[2].role = "assistant"

\* A turn, then clear_context, then a turn that returned.
C8_Witness ==
    /\ cleared_before
    /\ Returned
    /\ turns = 2
    /\ Len(messages) = 2

\* C9: clear_context is total and idempotent: it can be called in every
\* state at rest, it leaves the conversation empty, and a second call in a
\* row leaves the state of the first call.
C9_ClearContextIdempotent ==
    /\ [](pc = "idle" => ENABLED clear_context)
    /\ [][clear_context =>
            /\ messages' = <<>>
            /\ UNCHANGED config
            /\ (clears >= 1 => messages' = messages)]_vars

\* clear_context was called twice in a row after at least one turn.
C9_Witness ==
    /\ clears = 2
    /\ turns >= 1
    /\ messages = <<>>

\* C10: on the n-th turn since construction or the last clear_context the
\* message list passed to the direct-answer call is the whole conversation:
\* the turns of turns 1..n-1 in order, then the new user turn.
C10_FullHistoryPassed ==
    Len(calls) >= 1
    => /\ calls[1].fn = "call_llm"
       /\ calls[1].args[1] = pre \o <<UserMessage(user_prompt)>>
       /\ (clears = 0 /\ llm_provider \in KnownProviders)
            => Len(calls[1].args[1]) = 2 * since_clear - 1

\* The second turn's generation call received the first exchange as well.
C10_Witness ==
    /\ since_clear = 2
    /\ Len(calls) >= 1
    /\ Len(calls[1].args[1]) = 3
    /\ calls[1].args[1][1].content # calls[1].args[1][3].content

\* s ends with tag, compared without regard to letter case.
EndsWithIgnoringCase(s, tag) ==
    /\ Len(s) >= Len(tag)
    /\ \A k \in 1..Len(tag) :
          LowerTok(s[Len(s) - Len(tag) + k]) = tag[k]

\* C4: submit_for_evaluation returns true exactly when the trimmed
\* evaluator output ends with [Yes] (any letter case); false when it ends
\* with [No]; false when it ends with neither tag, also when a tag appears
\* only earlier in the text; it does not raise.
C4_VerdictIsTrailingYesTag ==
    eval_probe.phase = "done"
    => /\ ~eval_probe.raised
       /\ eval_probe.verdict
            = EndsWithIgnoringCase(Strip(eval_probe.output),
                                   <<"[", "y", "e", "s", "]">>)
       /\ EndsWithIgnoringCase(Strip(eval_probe.output), <<"[", "n", "o", "]">>)
            => ~eval_probe.verdict

\* An output with text before a [yES] tag was judged sufficient.
C4_Witness ==
    /\ eval_probe.phase = "done"
    /\ eval_probe.verdict
    /\ Len(eval_probe.output) > 5
    /\ eval_probe.output[Len(eval_probe.output) - 1] = "S"

\* The four forms of text search_on_the_web returns.
IsNoResultsText(text) == text # <<>> /\ Head(text) = "No results found"

IsNoUsableContentText(text) ==
    /\ text # <<>>
    /\ Head(text) = "Search returned results, but "
    /\ Contains(<<"no ", "usable ", "text content ">>, text)

IsServiceErrorText(text) ==
    text # <<>> /\ Head(text) = "Not able to receive search service"

IsFormattedBlock(text) == text # <<>> /\ Head(text) = "Source "

FormsOf(text) ==
    {f \in {"none found", "unusable", "error", "block"} :
        \/ f = "none found" /\ IsNoResultsText(text)
        \/ f = "unusable" /\ IsNoUsableContentText(text)
        \/ f = "error" /\ IsServiceErrorText(text)
        \/ f = "block" /\ IsFormattedBlock(text)}

ProbeHasUsableItem ==
    \E i \in 1..Len(search_probe.items) :
        LET item == search_probe.items[i]
        IN  item.isdict /\ snippet(item) \notin {<<>>, <<"No snippet">>}

\* C5: search_on_the_web returns exactly one of four texts: the backend
\* raised -> the "Not able to receive search service" message; zero raw
\* items -> the "No results found" message, containing the query; raw
\* items but none with a usable snippet -> the "no usable text content"
\* message; otherwise the formatted block.
C5_FourRetrievalOutcomes ==
    search_probe.phase = "done"
    => LET text == search_probe.result
       IN  /\ Cardinality(FormsOf(text)) = 1
           /\ IF search_probe.kind = "exc"
              THEN IsServiceErrorText(text)
              ELSE IF search_probe.items = <<>>
              THEN IsNoResultsText(text) /\ Contains(search_probe.query, text)
              ELSE IF ~ProbeHasUsableItem
              THEN IsNoUsableContentText(text)
              ELSE IsFormattedBlock(text)

\* Two raw items, neither with a usable snippet, gave the unusable message.
C5_Witness ==
    /\ search_probe.phase = "done"
    /\ search_probe.kind = "ok"
    /\ Len(search_probe.items) = 2
    /\ IsNoUsableContentText(search_probe.result)

\* ------------------------------------------------------------------------
\* call_llm on its own: the backend's content (generated text or exception
\* message) is built from up to MaxChunks chunks, then call_llm is applied.
\* ------------------------------------------------------------------------
LLMChunks ==
    { <<"<think>">>, <<"</think>">>, <<" ">>, <<"\n">>, <<"Paris">>,
      <<"timed out">> }

ReplyKinds == {"ok", "exc", "nolib", "nonstr"}

LLMInit ==
    /\ OracleInit("llama3.2", "ollama", None)
    /\ ExtraIdle
    /\ eval_probe = ProbeIdle
    /\ search_probe = ProbeIdle
    /\ summary_probe = ProbeIdle
    /\ \E p \in Providers, k \in ReplyKinds :
         llm_probe = [phase |-> "build", provider |-> p, kind |-> k,
                      content |-> <<>>, chunks |-> 0, raised |-> FALSE,
                      value |-> <<>>]

LLMAppendChunk(c) ==
    /\ llm_probe.phase = "build"
    /\ llm_probe.chunks < MaxChunks
    /\ llm_probe' = [llm_probe EXCEPT !.content = @ \o c, !.chunks = @ + 1]
    /\ UNCHANGED <<oracleVars, extra, eval_probe, search_probe, summary_probe>>

LLMRun ==
    /\ llm_probe.phase = "build"
    /\ LET r == call_llm(<<UserMessage(<<"capital of France?">>)>>,
                         "llama3.2", llm_probe.provider,
                         [kind |-> llm_probe.kind, content |-> llm_probe.content])
       IN  llm_probe' = [llm_probe EXCEPT !.phase = "done",
                                          !.raised = r.raised,
                                          !.value = r.value]
    /\ UNCHANGED <<oracleVars, extra, eval_probe, search_probe, summary_probe>>

LLMNext ==
    \/ \E c \in LLMChunks : LLMAppendChunk(c)
    \/ LLMRun

SpecLLM == LLMInit /\ [][LLMNext]_vars

ErrorPrefix(provider) ==
    IF provider = "ollama" THEN "Error communicating with Ollama: "
    ELSE "Error communicating with LM Studio: "

\* C11: call_llm is fail-soft: when the call to the selected backend raises
\* (backend unreachable or failing), call_llm does not raise to its caller
\* and returns a textual error description as its result.
C11_BackendErrorReturnedAsText ==
    (llm_probe.phase = "done" /\ llm_probe.provider \in KnownProviders
       /\ llm_probe.kind = "exc")
    => /\ ~llm_probe.raised
       /\ llm_probe.value # <<>>
       /\ Head(llm_probe.value) = ErrorPrefix(llm_probe.provider)

\* The LM Studio call raised with a message and call_llm returned text.
C11_Witness ==
    /\ llm_probe.phase = "done"
    /\ llm_probe.provider = "lm_studio"
    /\ llm_probe.kind = "exc"
    /\ llm_probe.content # <<>>
    /\ ~llm_probe.raised
    /\ Len(llm_probe.value) > 1

\* C12 as claimed: an Oracle constructed with a provider other than the
\* known ones still completes get_response with a final answer and does not
\* raise.
C12_UnknownProviderStillAnswers ==
    (TurnOver /\ llm_provider \notin KnownProviders)
    => /\ outcome = "returned"
       /\ messages[Len(messages)] = AssistantMessage(final_answer)

\* C12 as amended: an Oracle with a provider other than 'ollama' and
\* 'lm_studio' is constructed without error, but its get_response raises at
\* the direct-answer call: the user turn has been appended, no other stage
\* runs and no answer is produced.
C12_UnknownProviderRaises ==
    (TurnOver /\ llm_provider \notin KnownProviders)
    => /\ outcome = "raised"
       /\ Fns = <<"call_llm">>
       /\ messages = pre \o <<UserMessage(user_prompt)>>
       /\ final_answer = <<>>

\* A second get_response on an Oracle with provider 'vllm' has raised.
C12_Witness ==
    /\ TurnOver
    /\ llm_provider = "vllm"
    /\ outcome = "raised"
    /\ turns = 2
    /\ Len(messages) = 2

\* text with every token `from` replaced by `to`.
Rename(text, from, to) ==
    [i \in 1..Len(text) |-> IF text[i] = from THEN to ELSE text[i]]

\* C13: with an engine name outside the known set search_on_the_web searches
\* with the default engine (Google) and returns what it returns for
\* 'google', except that failure messages echo the name given; an unknown
\* name is never an error.
C13_UnknownEngineDefaultsToGoogle ==
    (search_probe.phase = "done"
       /\ search_probe.engine_name \notin SupportedEngines)
    => LET backend == [kind |-> search_probe.kind, items |-> search_probe.items]
           as_google == search_on_the_web(search_probe.query, "google", backend)
       IN  /\ search_probe.searched = "google"
           /\ Rename(search_probe.result, search_probe.engine_name, "google")
                = as_google
           /\ IsFormattedBlock(as_google) => search_probe.result = as_google
           /\ search_probe.kind = "ok" => ~IsServiceErrorText(search_probe.result)

\* A search with engine name 'altavista' returned a formatted block.
C13_Witness ==
    /\ search_probe.phase = "done"
    /\ search_probe.engine_name = "altavista"
    /\ search_probe.searched = "google"
    /\ search_probe.kind = "ok"
    /\ IsFormattedBlock(search_probe.result)

\* ------------------------------------------------------------------------
\* summarize_search_results on its own: the raw results are built from up
\* to MaxBlocks runs of one repeated character, then the function is
\* applied with the chosen max_length, provider and backend reply.
\* ------------------------------------------------------------------------
BlockSizes == {1, 250}

ProbeMaxLengths == {0, 2, 250, 500, DefaultMaxLength}

Run(c, k) == [i \in 1..k |-> c]

SummaryQuery == <<"capital of France?">>

SummaryInit ==
    /\ OracleInit("llama3.2", "ollama", "google")
    /\ ExtraIdle
    /\ eval_probe = ProbeIdle
    /\ search_probe = ProbeIdle
    /\ llm_probe = ProbeIdle
    /\ \E p \in Providers, k \in {"ok", "exc"}, m \in ProbeMaxLengths :
         summary_probe = [phase |-> "build", provider |-> p, kind |-> k,
                          max_length |-> m, raw |-> <<>>, blocks |-> 0,
                          prompt |-> <<>>, llm_raised |-> FALSE,
                          raised |-> FALSE, result |-> <<>>]

SummaryAppendBlock(c, k) ==
    /\ summary_probe.phase = "build"
    /\ summary_probe.blocks < MaxBlocks
    /\ summary_probe' = [summary_probe EXCEPT !.raw = @ \o Run(c, k),
                                              !.blocks = @ + 1]
    /\ UNCHANGED <<oracleVars, extra, eval_probe, search_probe, llm_probe>>

SummaryRun ==
    /\ summary_probe.phase = "build"
    /\ LET reply == [kind |-> summary_probe.kind,
                     content |-> <<"Paris is the capital.">>]
           prompt == full_summarization_prompt(summary_probe.raw, SummaryQuery,
                                               summary_probe.max_length)
           inner == call_llm(<<UserMessage(prompt)>>, "llama3.2",
                             summary_probe.provider, reply)
           r == summarize_search_results(summary_probe.raw, SummaryQuery,
                    "llama3.2", summary_probe.provider,
                    summary_probe.max_length, reply)
       IN  summary_probe' = [summary_probe EXCEPT !.phase = "done",
                                                  !.prompt = prompt,
                                                  !.llm_raised = inner.raised,
                                                  !.raised = r.raised,
                                                  !.result = r.value]
    /\ UNCHANGED <<oracleVars, extra, eval_probe, search_probe, llm_probe>>

SummaryNext ==
    \/ \E c \in {"a", "b"}, k \in BlockSizes : SummaryAppendBlock(c, k)
    \/ SummaryRun

SpecSummary == SummaryInit /\ [][SummaryNext]_vars

\* The fixed part of the summarization prompt, before the results.
SummaryPromptHead ==
    SUMMARIZATION_PROMPT_TEMPLATE(SummaryQuery)
    \o <<"\n", "\n", "Search Results to Summarize:", "\n">>

\* The results text embedded in the prompt sent to the model.
EmbeddedResults ==
    SubSeq(summary_probe.prompt, Len(SummaryPromptHead) + 1,
           Len(summary_probe.prompt))

\* C14: the results text embedded in the summarization prompt is the first
\* max_length characters of the raw results followed by the truncation
\* marker when the raw results are longer than max_length, and the raw
\* results unchanged, without marker, otherwise.
C14_PromptEmbedsBoundedResults ==
    summary_probe.phase = "done"
    => /\ SubSeq(summary_probe.prompt, 1, Len(SummaryPromptHead))
            = SummaryPromptHead
       /\ IF Len(summary_probe.raw) > summary_probe.max_length
          THEN EmbeddedResults
                 = SubSeq(summary_probe.raw, 1, summary_probe.max_length)
                   \o <<"\n", "... [Results Truncated] ...">>
          ELSE EmbeddedResults = summary_probe.raw

\* Raw results of more than 250 characters were cut at max_length = 250.
C14_Witness ==
    /\ summary_probe.phase = "done"
    /\ summary_probe.max_length = 250
    /\ Len(summary_probe.raw) > 250
    /\ Len(EmbeddedResults) = 252
    /\ EmbeddedResults[252] = "... [Results Truncated] ..."

\* C15: if the generation call inside summarize_search_results raises, the
\* function does not raise and returns the first 500 characters of the raw
\* input results, followed by an ellipsis only when the raw input is longer
\* than 500 characters, for every max_length and every input length.
C15_FallbackIsPrefixOfRawInput ==
    (summary_probe.phase = "done" /\ summary_probe.llm_raised)
    => /\ ~summary_probe.raised
       /\ summary_probe.result
            = IF Len(summary_probe.raw) > 500
              THEN SubSeq(summary_probe.raw, 1, 500) \o <<"...">>
              ELSE summary_probe.raw

StagePath ==
    <<"call_llm", "submit_for_evaluation", "refactor_search_input",
      "search_on_the_web", "summarize_search_results",
      "process_search_result_with_llm">>

\* The retrieval of this turn ended in one of the three failure outcomes.
RetrievalIsFailure == RetrievalEmpty \/ RetrievalRaised \/ RetrievalUnusable

\* C17: within one turn the stages run only along the specified path, each
\* at most once and in order: direct answer, evaluation only if a search
\* engine is configured, refinement only if the verdict is insufficient,
\* retrieval, summarization only if retrieval is not a failure, synthesis;
\* the assistant turn is appended only after the last stage, and a turn
\* makes at most six backend calls.
C17_StagesFollowThePath ==
    outcome \in {"running", "returned", "raised"}
    => /\ Len(calls) <= 6
       /\ \A i \in 1..Len(calls) : Fns[i] = StagePath[i]
       /\ Invoked("submit_for_evaluation") => ~NoSearchEngineConfigured
       /\ Invoked("refactor_search_input") => ~is_sufficient
       /\ Invoked("summarize_search_results") => ~RetrievalIsFailure
       /\ outcome = "running"
            => messages = pre \o <<UserMessage(user_prompt)>>
       /\ (outcome = "running" /\ pc # "call_llm")
            => Fns[Len(calls)] # pc

\* C18: when retrieval succeeds (some item is retained and the formatted
\* block is returned), the turn goes through the summarizer and then the
\* synthesizer and the synthesizer's output is the final answer; the
\* fallback to the direct answer after retrieval is taken only in the three
\* failure outcomes, whatever text the items contain.
C18_SuccessfulRetrievalIsSynthesized ==
    (Returned /\ Invoked("search_on_the_web"))
    => IF RetrievalIsFailure
       THEN TRUE
       ELSE /\ IsFormattedBlock(raw_search_results)
            /\ Fns = StagePath
            /\ calls[6].args[1] = summarized_results
            /\ ~FellBackToDirectAnswer

\* C19: after any sequence of get_response and clear_context calls,
\* including get_response calls that raised, the conversation at rest
\* consists of complete exchanges: its length is even, odd positions hold
\* user turns, even positions hold assistant turns, and each user turn is
\* immediately followed by its assistant turn.
C19_ConversationAtRestIsExchanges ==
    pc = "idle"
    => /\ Len(messages) % 2 = 0
       /\ \A i \in 1..Len(messages) :
            IF i % 2 = 1
            THEN /\ messages[i].role = "user"
                 /\ i < Len(messages)
                 /\ messages[i + 1].role = "assistant"
            ELSE messages[i].role = "assistant"

\* The item carries a non-empty, non-placeholder snippet.
CarriesSnippet(item) ==
    item.isdict /\ snippet(item) # <<>> /\ snippet(item) # <<"No snippet">>

\* The blocks of the items at positions i.. that carry a snippet, each
\* labelled with the 1-based position of its item.
RECURSIVE BlocksFrom(_, _)
BlocksFrom(items, i) ==
    IF i > Len(items) THEN <<>>
    ELSE IF CarriesSnippet(items[i])
         THEN <<formatted_result(i - 1, items[i])>> \o BlocksFrom(items, i + 1)
         ELSE BlocksFrom(items, i + 1)

\* Number of positions of text that hold the token tok.
Count(tok, text) == Cardinality({i \in 1..Len(text) : text[i] = tok})

ValuesUnder(item, keys) == {item.d[k] : k \in keys \cap DOMAIN item.d}

\* The non-empty, non-placeholder values under the two snippet keys.
SnippetValues(item) ==
    ValuesUnder(item, {"text", "snippet"}) \ {<<>>, <<"No snippet">>}

\* The block of raw item i with the given title, URL and snippet.
BlockOf(i, t, u, s) ==
    <<"Source ", ToString(i), ":", "\n", "Title: ">> \o t
    \o <<"\n", "URL: ">> \o u \o <<"\n", "Snippet: ">> \o s \o <<"\n", "---">>

\* C21: search_on_the_web takes the snippet from either of the keys 'text'
\* and 'snippet' and the URL from either of the keys 'link' and 'url': an
\* item with a non-empty value under at least one snippet key is retained
\* with that value, and a field missing under both of its keys is replaced
\* by its placeholder ('No title', 'No URL').
C21_EitherKeySuppliesTheField ==
    (search_probe.phase = "done" /\ search_probe.kind = "ok")
    => \A i \in 1..Len(search_probe.items) :
         LET item == search_probe.items[i]
             titles == IF "title" \in DOMAIN item.d
                       THEN {item.d["title"]} ELSE {<<"No title">>}
             urls == IF ValuesUnder(item, {"link", "url"}) # {}
                     THEN ValuesUnder(item, {"link", "url"})
                     ELSE {<<"No URL">>}
         IN  (item.isdict /\ SnippetValues(item) # {})
             => \E t \in titles, u \in urls, s \in SnippetValues(item) :
                    Contains(BlockOf(i, t, u, s), search_probe.result)

\* ------------------------------------------------------------------------
\* refactor_search_input on its own: the backend's reply is built from up
\* to MaxChunks chunks, then the function is applied.
\* ------------------------------------------------------------------------
RefineChunks ==
    { <<QueryLabel>>, <<" ">>, <<"\n">>, <<"capital", " ", "France">>,
      <<"Sure!">> }

OtherProbesIdle ==
    /\ eval_probe = ProbeIdle
    /\ search_probe = ProbeIdle
    /\ llm_probe = ProbeIdle
    /\ summary_probe = ProbeIdle

oldProbes == <<eval_probe, search_probe, llm_probe, summary_probe>>

RefineInit ==
    /\ OracleInit("llama3.2", "ollama", "google")
    /\ OtherProbesIdle
    /\ think_probe = ProbeIdle
    /\ instances = ProbeIdle
    /\ ui = ProbeIdle
    /\ cli = ProbeIdle
    /\ \E p \in KnownProviders, k \in {"ok", "exc"} :
         refine_probe = [phase |-> "build", provider |-> p, kind |-> k,
                         content |-> <<>>, chunks |-> 0, response |-> <<>>,
                         raised |-> FALSE, result |-> <<>>]

RefineAppendChunk(c) ==
    /\ refine_probe.phase = "build"
    /\ refine_probe.chunks < MaxChunks
    /\ refine_probe' = [refine_probe EXCEPT !.content = @ \o c,
                                            !.chunks = @ + 1]
    /\ UNCHANGED <<oracleVars, oldProbes, think_probe, instances, ui, cli>>

RefineRun ==
    /\ refine_probe.phase = "build"
    /\ LET reply == [kind |-> refine_probe.kind,
                     content |-> refine_probe.content]
           user_input == <<"capital of France?">>
           response == call_llm(
               <<UserMessage(SEARCH_ENGINE_OPTIMIZATION_PROMPT_TEMPLATE(user_input))>>,
               "llama3.2", refine_probe.provider, reply)
           r == refactor_search_input(user_input, "llama3.2",
                                      refine_probe.provider, reply)
       IN  refine_probe' = [refine_probe EXCEPT !.phase = "done",
                                                !.response = response.value,
                                                !.raised = r.raised,
                                                !.result = r.value]
    /\ UNCHANGED <<oracleVars, oldProbes, think_probe, instances, ui, cli>>

RefineNext ==
    \/ \E c \in RefineChunks : RefineAppendChunk(c)
    \/ RefineRun

SpecRefine == RefineInit /\ [][RefineNext]_vars

\* text has no leading and no trailing whitespace.
IsTrimmed(text) ==
    text = <<>> \/ (text[1] \notin Whitespace /\ text[Len(text)] \notin Whitespace)

\* text with its leading and trailing whitespace removed.
Trimmed(text) ==
    IF \A i \in 1..Len(text) : text[i] \in Whitespace THEN <<>>
    ELSE LET first == CHOOSE i \in 1..Len(text) :
                 text[i] \notin Whitespace
                 /\ \A j \in 1..(i - 1) : text[j] \in Whitespace
             last == CHOOSE i \in 1..Len(text) :
                 text[i] \notin Whitespace
                 /\ \A j \in (i + 1)..Len(text) : text[j] \in Whitespace
         IN  SubSeq(text, first, last)

\* C22: if the label 'Optimized Search Query:' appears in the model output,
\* refactor_search_input keeps only the text after the label; the returned
\* query never contains the label and has no leading or trailing
\* whitespace; when the label does not appear the returned query is the
\* model output trimmed.
C22_QueryIsTextAfterLabelTrimmed ==
    refine_probe.phase = "done"
    => LET out == refine_probe.response
           query == refine_probe.result
           labels == {i \in 1..Len(out) : out[i] = QueryLabel}
       IN  /\ ~refine_probe.raised
           /\ \A i \in 1..Len(query) : query[i] # QueryLabel
           /\ IsTrimmed(query)
           /\ IF labels = {}
              THEN query = Trimmed(out)
              ELSE \E i \in labels :
                      query = Trimmed(SubSeq(out, i + 1, Len(out)))

\* The model output held the label twice, with the query after the second.
C22_Witness ==
    /\ refine_probe.phase = "done"
    /\ refine_probe.response =
         <<QueryLabel, QueryLabel, "capital", " ", "France">>
    /\ refine_probe.result = <<"capital", " ", "France">>

\* ------------------------------------------------------------------------
\* The post-processing of call_llm (lines 110-117) character by character:
\* here a text is a sequence of single characters, so that a marker can be
\* cut in two.  The raw output is built from up to MaxPieces pieces.
\* ------------------------------------------------------------------------
ThinkOpen == <<"<", "t", "h", "i", "n", "k", ">">>

ThinkClose == <<"<", "/", "t", "h", "i", "n", "k", ">">>

\* s.find(pat, from - 1) + 1: the first occurrence of pat at or after from.
FirstMatch(pat, s, from) ==
    LET at == {i \in from..(Len(s) - Len(pat) + 1) :
                  SubSeq(s, i, i + Len(pat) - 1) = pat}
    IN  IF at = {} THEN 0 ELSE CHOOSE i \in at : \A j \in at : i <= j

LastMatch(pat, s, from) ==
    LET at == {i \in from..(Len(s) - Len(pat) + 1) :
                  SubSeq(s, i, i + Len(pat) - 1) = pat}
    IN  IF at = {} THEN 0 ELSE CHOOSE i \in at : \A j \in at : i >= j

\* Variant: the match is greedy (r"<think>.*</think>").
RECURSIVE ReSubThink_Greedy(_)
ReSubThink_Greedy(s) ==
    LET open == FirstMatch(ThinkOpen, s, 1)
        close == IF open = 0 THEN 0
                 ELSE LastMatch(ThinkClose, s, open + Len(ThinkOpen))
    IN  IF open = 0 \/ close = 0
        THEN s
        ELSE SubSeq(s, 1, open - 1)
             \o ReSubThink_Greedy(SubSeq(s, close + Len(ThinkClose), Len(s)))

\* re.sub(r"<think>.*?</think>", "", s, flags=re.DOTALL): one pass from
\* left to right; the scan resumes after each removed span.
RECURSIVE ReSubThink(_)
ReSubThink(s) ==
    LET open == FirstMatch(ThinkOpen, s, 1)
        close == IF open = 0 THEN 0
                 ELSE FirstMatch(ThinkClose, s, open + Len(ThinkOpen))
    IN  IF open = 0 \/ close = 0
        THEN s
        ELSE SubSeq(s, 1, open - 1)
             \o ReSubThink(SubSeq(s, close + Len(ThinkClose), Len(s)))

ThinkPieces ==
    { ThinkOpen, ThinkClose, <<"<", "t", "h", "i">>, <<"n", "k", ">">>,
      <<"x">>, <<" ">>, <<"\n">> }

ThinkInit ==
    /\ OracleInit("llama3.2", "ollama", None)
    /\ OtherProbesIdle
    /\ refine_probe = ProbeIdle
    /\ instances = ProbeIdle
    /\ ui = ProbeIdle
    /\ cli = ProbeIdle
    /\ think_probe = [phase |-> "build", raw |-> <<>>, pieces |-> 0,
                      value |-> <<>>]

ThinkAppendPiece(p) ==
    /\ think_probe.phase = "build"
    /\ think_probe.pieces < MaxPieces
    /\ think_probe' = [think_probe EXCEPT !.raw = @ \o p, !.pieces = @ + 1]
    /\ UNCHANGED <<oracleVars, oldProbes, refine_probe, instances, ui, cli>>

ThinkRun ==
    /\ think_probe.phase = "build"
    /\ think_probe' = [think_probe EXCEPT
                          !.phase = "done",
                          !.value = Strip(ReSubThink(think_probe.raw))]
    /\ UNCHANGED <<oracleVars, oldProbes, refine_probe, instances, ui, cli>>

ThinkNext ==
    \/ \E p \in ThinkPieces : ThinkAppendPiece(p)
    \/ ThinkRun

SpecThink == ThinkInit /\ [][ThinkNext]_vars

\* pat occurs in text at position i.
OccursAt(pat, text, i) ==
    i >= 1 /\ i + Len(pat) - 1 <= Len(text)
    /\ SubSeq(text, i, i + Len(pat) - 1) = pat

\* text contains a complete <think>...</think> span.
HasThinkSpan(text) ==
    \E i, j \in 1..Len(text) :
        /\ OccursAt(ThinkOpen, text, i)
        /\ j >= i + Len(ThinkOpen)
        /\ OccursAt(ThinkClose, text, j)

\* The positions of raw covered by the spans found scanning from `from`:
\* the leftmost opening marker and the nearest closing marker after it,
\* then the same again after that closing marker.
RECURSIVE SpanPositions(_, _)
SpanPositions(raw, from) ==
    LET opens == {i \in from..Len(raw) : OccursAt(ThinkOpen, raw, i)
                    /\ \E j \in (i + Len(ThinkOpen))..Len(raw) :
                          OccursAt(ThinkClose, raw, j)}
    IN  IF opens = {} THEN {}
        ELSE LET o == CHOOSE i \in opens : \A k \in opens : i <= k
                 closes == {j \in (o + Len(ThinkOpen))..Len(raw) :
                               OccursAt(ThinkClose, raw, j)}
                 c == CHOOSE j \in closes : \A k \in closes : j <= k
                 end == c + Len(ThinkClose) - 1
             IN  (o..end) \cup SpanPositions(raw, end + 1)

\* The positions of raw outside every span, in increasing order.
KeptPositions(raw) ==
    LET removed == SpanPositions(raw, 1)
        Outside(p) == p \notin removed
    IN  SelectSeq([p \in 1..Len(raw) |-> p], Outside)

ConversationInFlight == pre \o <<UserMessage(user_prompt)>>

\* C24: in an augmentation turn the evaluator receives the original user
\* text and the direct answer, the refiner the original user text, the
\* retrieval call the refiner's output, the summarizer the retrieval text
\* and the original user text (not the refined query), the synthesizer the
\* summarizer's output and the original user text; none of the evaluation,
\* refinement, summarization and synthesis calls receives the conversation
\* history and none of them adds a turn to it.
C24_StageInputsAreFixed ==
    (outcome \in {"running", "returned", "raised"} /\ clears = 0)
    => /\ \A i \in 1..Len(calls) :
            LET fn == calls[i].fn
                args == calls[i].args
            IN  /\ fn = "call_llm"
                     => args = <<ConversationInFlight, model_name, llm_provider>>
                /\ fn = "submit_for_evaluation"
                     => args = <<user_prompt, llm_response_content,
                                 model_name, llm_provider>>
                /\ fn = "refactor_search_input"
                     => args = <<user_prompt, model_name, llm_provider>>
                /\ fn = "search_on_the_web"
                     => args = <<optimized_query, search_engine>>
                /\ fn = "summarize_search_results"
                     => args = <<raw_search_results, user_prompt,
                                 model_name, llm_provider>>
                /\ fn = "process_search_result_with_llm"
                     => args = <<summarized_results, user_prompt,
                                 model_name, llm_provider>>
       /\ messages[Len(pre) + 1] = UserMessage(user_prompt)
       /\ outcome = "running" => messages = ConversationInFlight
       /\ outcome = "returned"
            => messages = ConversationInFlight \o <<AssistantMessage(final_answer)>>

\* A second turn went through all six stages with a refined query that
\* differs from the user text.
C24_Witness ==
    /\ Returned
    /\ Fns = StagePath
    /\ pre # <<>>
    /\ optimized_query # user_prompt
    /\ calls[4].args[1] = optimized_query
    /\ calls[5].args[2] = user_prompt
    /\ calls[6].args[2] = user_prompt

\* ------------------------------------------------------------------------
\* Oracle objects as values: an object is the record of its four fields.
\* The front ends (cli.py, web_ui.py) and code holding several Oracles call
\* get_response as one operation; `inp` is what the backends do during the
\* call, one reply per stage and one retrieval outcome.
\* ------------------------------------------------------------------------
Oracle(m, p, e) ==
    [model_name |-> m, llm_provider |-> p, search_engine |-> e,
     messages |-> <<>>]

\* oracle.py: Oracle.get_response (lines 17-76) from call to return.
Oracle_get_response(self, user_text, inp) ==
    LET m == self.model_name
        p == self.llm_provider
        msgs == Append(self.messages, UserMessage(user_text))
        Raised == [raised |-> TRUE, response |-> <<>>,
                   self |-> [self EXCEPT !.messages = msgs]]
        Returns(final) ==
            [raised |-> FALSE, response |-> final,
             self |-> [self EXCEPT !.messages = WithAssistantTurn(msgs, final)]]
        direct == call_llm(MessagesPassed(msgs), m, p, inp.direct)
        verdict == submit_for_evaluation(user_text, direct.value, m, p,
                                         inp.verdict)
        query == refactor_search_input(user_text, m, p, inp.refine)
        raw == search_on_the_web(query.value, self.search_engine, inp.backend)
        summary == summarize_search_results(raw, user_text, m, p,
                                            DefaultMaxLength, inp.summary)
        synth == process_search_result_with_llm(summary.value, user_text, m, p,
                                                inp.synth)
    IN  IF direct.raised THEN Raised
        ELSE IF self.search_engine \in {None, ""} THEN Returns(direct.value)
        ELSE IF verdict.raised THEN Raised
        ELSE IF verdict.value THEN Returns(direct.value)
        ELSE IF query.raised THEN Raised
        ELSE IF SearchFailed(raw) THEN Returns(direct.value)
        ELSE IF synth.raised THEN Raised
        ELSE Returns(synth.value)

\* oracle.py: Oracle.clear_context (lines 78-80).
Oracle_clear_context(self) == [self EXCEPT !.messages = Cleared(self.messages)]

ReplyText(content) == [kind |-> "ok", content |-> content]

\* What the backends do during one call of get_response.
TurnInputs ==
    { [direct |-> ReplyText(<<"Paris">>),
       verdict |-> ReplyText(<<"fine", "\n", "[", "Y", "e", "s", "]">>),
       refine |-> ReplyText(<<"capital", " ", "France">>),
       backend |-> [kind |-> "ok", items |-> <<ItemGood>>],
       summary |-> ReplyText(<<"Paris is the capital.">>),
       synth |-> ReplyText(<<"It is Paris.">>)],
      [direct |-> ReplyText(<<"I am not sure">>),
       verdict |-> ReplyText(<<"wrong", "\n", "[", "N", "o", "]">>),
       refine |-> ReplyText(<<QueryLabel, " ", "capital", " ", "France">>),
       backend |-> [kind |-> "ok", items |-> <<ItemNoSnippet, ItemGood>>],
       summary |-> ReplyText(<<"Paris is the capital.">>),
       synth |-> ReplyText(<<"It is Paris.">>)],
      [direct |-> [kind |-> "exc", content |-> <<"connection refused">>],
       verdict |-> ReplyText(<<"no tag">>),
       refine |-> ReplyText(<<"capital", " ", "France">>),
       backend |-> [kind |-> "exc", items |-> <<>>],
       summary |-> ReplyText(<<"Paris is the capital.">>),
       synth |-> ReplyText(<<"It is Paris.">>)],
      [direct |-> [kind |-> "nolib", content |-> <<>>],
       verdict |-> ReplyText(<<"no tag">>),
       refine |-> ReplyText(<<"capital", " ", "France">>),
       backend |-> [kind |-> "ok", items |-> <<>>],
       summary |-> ReplyText(<<"Paris is the capital.">>),
       synth |-> ReplyText(<<"It is Paris.">>)] }

\* ------------------------------------------------------------------------
\* Two Oracle objects A and B in one process.  Calls are made one at a time
\* on either object, in any order; at most MaxCalls calls are made.
\* `alone` is the conversation each object has when only its own calls are
\* made, `before` the objects before the last call, `made` the objects as
\* constructed.
\* ------------------------------------------------------------------------
Names == {"A", "B"}

TwoConfigs ==
    { Oracle("llama3.2", "ollama", None),
      Oracle("qwen3", "lm_studio", "google"),
      Oracle("llama3.2", "vllm", "altavista") }

\* Variant: `messages` is one list shared by all objects (class attribute).
Store_SharedMessages(objs, o, new) ==
    [p \in DOMAIN objs |->
        IF p = o THEN new ELSE [objs[p] EXCEPT !.messages = new.messages]]

\* Assignment to the fields of object o (self.messages of lines 15, 21, 75, 80).
Store(objs, o, new) == [objs EXCEPT ![o] = new]

TwoInit ==
    /\ OracleInit("llama3.2", "ollama", None)
    /\ OtherProbesIdle
    /\ refine_probe = ProbeIdle
    /\ think_probe = ProbeIdle
    /\ ui = ProbeIdle
    /\ cli = ProbeIdle
    /\ \E a \in TwoConfigs, b \in TwoConfigs :
         instances = [objs |-> [A |-> a, B |-> b],
                      made |-> [A |-> a, B |-> b],
                      before |-> [A |-> a, B |-> b],
                      alone |-> [A |-> <<>>, B |-> <<>>],
                      last |-> "none", op |-> "none", n |-> 0]

TwoGetResponse(o, user_text, inp) ==
    /\ instances.n < MaxCalls
    /\ LET r == Oracle_get_response(instances.objs[o], user_text, inp)
           solo == Oracle_get_response(
                       [instances.made[o] EXCEPT !.messages = instances.alone[o]],
                       user_text, inp)
       IN  instances' = [instances EXCEPT
                            !.objs = Store(instances.objs, o, r.self),
                            !.before = instances.objs,
                            !.alone[o] = solo.self.messages,
                            !.last = o,
                            !.op = "get_response",
                            !.n = @ + 1]
    /\ UNCHANGED <<oracleVars, oldProbes, refine_probe, think_probe, ui, cli>>

TwoClearContext(o) ==
    /\ instances.n < MaxCalls
    /\ instances' = [instances EXCEPT
                        !.objs = Store(instances.objs, o,
                                       Oracle_clear_context(instances.objs[o])),
                        !.before = instances.objs,
                        !.alone[o] = <<>>,
                        !.last = o,
                        !.op = "clear_context",
                        !.n = @ + 1]
    /\ UNCHANGED <<oracleVars, oldProbes, refine_probe, think_probe, ui, cli>>

TwoNext ==
    \/ \E o \in Names, user_text \in Prompts, inp \in TurnInputs :
          TwoGetResponse(o, user_text, inp)
    \/ \E o \in Names : TwoClearContext(o)

SpecTwo == TwoInit /\ [][TwoNext]_vars

\* The configuration fields of an object.
ConfigOf(obj) == <<obj.model_name, obj.llm_provider, obj.search_engine>>

\* C25: two Oracle objects share no mutable state: under any interleaving
\* of get_response and clear_context calls on A and B, a call on one object
\* leaves the other's conversation and configuration unchanged, and each
\* object's conversation is the one it has when the other does not exist.
C25_InstancesShareNoState ==
    instances.last \in Names
    => /\ \A o \in Names \ {instances.last} :
             instances.objs[o] = instances.before[o]
       /\ \A o \in Names :
             /\ instances.objs[o].messages = instances.alone[o]
             /\ ConfigOf(instances.objs[o]) = ConfigOf(instances.made[o])

\* B answered a turn, then A answered a turn, then A was cleared: B still
\* holds its exchange.
C25_Witness ==
    /\ instances.last = "A"
    /\ instances.op = "clear_context"
    /\ instances.n = 3
    /\ instances.before["A"].messages # <<>>
    /\ instances.objs["A"].messages = <<>>
    /\ Len(instances.objs["B"].messages) = 2

\* The fields of self in the main model, as an Oracle object.
Self ==
    [model_name |-> model_name, llm_provider |-> llm_provider,
     search_engine |-> search_engine, messages |-> messages]

\* C26: a newly constructed Oracle stores model name, provider and search
\* engine as given (defaults 'llama3.2', 'ollama', no search engine) and
\* starts with an empty conversation; no sequence of get_response and
\* clear_context calls changes model name, provider or search engine, and
\* every stage of every turn uses that same model/provider pair.
C26_ConfigurationIsFixed ==
    /\ \E m \in {"llama3.2"}, p \in Providers, e \in SearchEngines :
          Self = Oracle(m, p, e)
    /\ [][config' = config]_vars
    /\ [](\A i \in 1..Len(calls) :
             LET args == calls[i].args
             IN  IF calls[i].fn = "search_on_the_web"
                 THEN args[2] = search_engine
                 ELSE /\ args[Len(args) - 1] = model_name
                      /\ args[Len(args)] = llm_provider)

\* The second turn of an Oracle built with provider 'lm_studio' and engine
\* 'altavista' made all six calls with that provider and that engine.
C26_Witness ==
    /\ Returned
    /\ turns = 2
    /\ ConfigOf(Self) = <<"llama3.2", "lm_studio", "altavista">>
    /\ Fns = StagePath
    /\ calls[4].args[2] = "altavista"
    /\ calls[6].args[4] = "lm_studio"

\* ------------------------------------------------------------------------
\* web_ui.py: one Streamlit session.  `ui` holds st.session_state; each
\* action is one user interaction with the script run it triggers.
\* `last` is the last interaction, `shown` the length of the display history
\* before it, `raised` the number of get_response calls that raised.
\* ------------------------------------------------------------------------
ModelLists == {<<>>, <<"qwen3", "llama3.2">>}

UIProviders == {"ollama", "lm_studio"}

search_engine_options == {None, "google", "bing"}

\* update_models_list (lines 11-42) with `models` the list that
\* get_available_models returned.
update_models_list(state, models) ==
    IF models # <<>>
    THEN [state EXCEPT
            !.available_models = models,
            !.current_model_name =
                IF \E i \in 1..Len(models) : models[i] = @ THEN @ ELSE models[1]]
    ELSE [state EXCEPT !.available_models = <<>>,
                       !.current_model_name = None]

UIOtherIdle ==
    /\ OracleInit("llama3.2", "ollama", None)
    /\ OtherProbesIdle
    /\ refine_probe = ProbeIdle
    /\ think_probe = ProbeIdle
    /\ instances = ProbeIdle
    /\ cli = ProbeIdle

uiFrame == <<oracleVars, oldProbes, refine_probe, think_probe, instances, cli>>

\* Lines 45-53 and the initial model fetch of lines 70-72.
UIInit ==
    /\ UIOtherIdle
    /\ \E models \in ModelLists :
         ui = update_models_list(
                 [oracle_instance |-> Oracle("llama3.2", "ollama", None),
                  chat_history |-> <<>>,
                  current_llm_provider |-> "ollama",
                  current_model_name |-> "llama3.2",
                  current_search_engine |-> None,
                  available_models |-> <<>>,
                  turns |-> 0, raised |-> 0, last |-> "start", shown |-> 0],
                 models)

Interaction(state, name) ==
    [state EXCEPT !.last = name, !.shown = Len(state.chat_history)]

\* The provider selectbox with its on_change callback (lines 60-66).
UISelectProvider(p, models) ==
    /\ ui' = update_models_list(
                [Interaction(ui, "provider") EXCEPT !.current_llm_provider = p],
                models)
    /\ UNCHANGED uiFrame

\* The Refresh Model List button (lines 68-69).
UIRefreshModelList(models) ==
    /\ ui' = update_models_list(Interaction(ui, "refresh"), models)
    /\ UNCHANGED uiFrame

\* The model selectbox (lines 93-100), disabled without models.
UISelectModel(i) ==
    /\ i \in 1..Len(ui.available_models)
    /\ ui' = [Interaction(ui, "model") EXCEPT
                 !.current_model_name = ui.available_models[i]]
    /\ UNCHANGED uiFrame

\* The search engine selectbox (lines 103-114).
UISelectSearchEngine(e) ==
    /\ ui' = [Interaction(ui, "engine") EXCEPT !.current_search_engine = e]
    /\ UNCHANGED uiFrame

\* Variant: Apply Configuration keeps the display history.
UIApplyConfiguration_KeepsHistory ==
    /\ ui' = IF ui.current_model_name = None
             THEN Interaction(ui, "apply")
             ELSE [Interaction(ui, "apply") EXCEPT
                      !.oracle_instance =
                          Oracle_clear_context(
                              Oracle(ui.current_model_name,
                                     ui.current_llm_provider,
                                     ui.current_search_engine))]
    /\ UNCHANGED uiFrame

\* The Apply Configuration button (lines 116-131).
UIApplyConfiguration ==
    /\ ui' = IF ui.current_model_name = None
             THEN Interaction(ui, "apply")
             ELSE [Interaction(ui, "apply") EXCEPT
                      !.oracle_instance =
                          Oracle_clear_context(
                              Oracle(ui.current_model_name,
                                     ui.current_llm_provider,
                                     ui.current_search_engine)),
                      !.chat_history = <<>>]
    /\ UNCHANGED uiFrame

\* Variant: Clear Chat History empties the display history only.
UIClearChatHistory_DisplayOnly ==
    /\ ui' = [Interaction(ui, "clear") EXCEPT !.chat_history = <<>>]
    /\ UNCHANGED uiFrame

\* The Clear Chat History button (lines 134-138).
UIClearChatHistory ==
    /\ ui' = [Interaction(ui, "clear") EXCEPT
                 !.chat_history = <<>>,
                 !.oracle_instance = Oracle_clear_context(@)]
    /\ UNCHANGED uiFrame

\* The chat input (lines 148-174).
UIChatInput(prompt, inp) ==
    /\ ui.turns < MaxTurns
    /\ LET r == Oracle_get_response(ui.oracle_instance, prompt, inp)
           shown == Append(ui.chat_history, UserMessage(prompt))
       IN  ui' = [Interaction(ui, "chat") EXCEPT
                     !.oracle_instance = r.self,
                     !.chat_history =
                         IF r.raised
                         THEN Append(shown, AssistantMessage(<<"Error: ", "e">>))
                         ELSE Append(shown, AssistantMessage(r.response)),
                     !.raised = IF r.raised THEN @ + 1 ELSE @,
                     !.turns = @ + 1]
    /\ UNCHANGED uiFrame

UINext ==
    \/ \E p \in UIProviders, models \in ModelLists : UISelectProvider(p, models)
    \/ \E models \in ModelLists : UIRefreshModelList(models)
    \/ \E i \in 1..2 : UISelectModel(i)
    \/ \E e \in search_engine_options : UISelectSearchEngine(e)
    \/ UIApplyConfiguration
    \/ UIClearChatHistory
    \/ \E prompt \in Prompts, inp \in TurnInputs : UIChatInput(prompt, inp)

SpecUI == UIInit /\ [][UINext]_vars

\* C27: in the web UI, Apply Configuration with a model selected replaces
\* the session's Oracle by a newly constructed one carrying the selected
\* model, provider and search engine and leaves the display history and the
\* new Oracle's conversation empty; Clear Chat History empties the display
\* history and the current Oracle's conversation and keeps the Oracle's
\* configuration.
C27_ApplyAndClearResetTheSession ==
    /\ [][(UIApplyConfiguration /\ ui.current_model_name # None)
            => /\ ui'.oracle_instance =
                     Oracle(ui.current_model_name, ui.current_llm_provider,
                            ui.current_search_engine)
               /\ ui'.oracle_instance.messages = <<>>
               /\ ui'.chat_history = <<>>]_vars
    /\ [][UIClearChatHistory
            => /\ ui'.chat_history = <<>>
               /\ ui'.oracle_instance.messages = <<>>
               /\ ConfigOf(ui'.oracle_instance) = ConfigOf(ui.oracle_instance)]_vars

\* Apply Configuration was pressed with model 'qwen3', provider 'lm_studio'
\* and engine 'google' selected while the display showed an exchange.
C27_Witness ==
    /\ ui.last = "apply"
    /\ ui.shown = 2
    /\ ConfigOf(ui.oracle_instance) = <<"qwen3", "lm_studio", "google">>
    /\ ui.oracle_instance.messages = <<>>
    /\ ui.chat_history = <<>>

\* C28: in the web UI, after any sequence of chat inputs, Clear Chat History
\* and Apply Configuration actions in which no get_response call raised,
\* the display chat history is equal, turn for turn, to the conversation
\* held by the session's Oracle.
C28_DisplayEqualsConversation ==
    ui.raised = 0 => ui.chat_history = ui.oracle_instance.messages

\* Two chat inputs were answered by a reconfigured Oracle with search.
C28_Witness ==
    /\ ui.raised = 0
    /\ ui.last = "chat"
    /\ ui.oracle_instance.search_engine = "google"
    /\ Len(ui.chat_history) = 4
    /\ ui.chat_history[4] = AssistantMessage(<<"It is Paris.">>)

\* ------------------------------------------------------------------------
\* cli.py: the input loop of main.  A line typed by the user is a sequence
\* of characters (an ordinary question is one token).  `sent` lists the
\* prompts passed to get_response, `reported` counts the exceptions
\* reported by the loop, `n` the lines read; at most MaxCalls lines are read.
\* ------------------------------------------------------------------------
QuitCommand == <<"/", "q", "u", "i", "t">>

ClearCommand == <<"/", "c", "l", "e", "a", "r">>

CLILines ==
    { QuitCommand, <<"/", "Q", "u", "I", "T">>,
      ClearCommand, <<"/", "C", "L", "E", "A", "R">>,
      <<" ", "/", "q", "u", "i", "t">>, <<"capital of France?">>, <<>> }

\* Variant: the comparison is case-sensitive (`prompt == '/quit'`).
IsCommand_CaseSensitive(prompt, command) == prompt = command

\* `prompt.lower() == '/quit'` (line 25) and `== '/clear'` (line 28).
IsCommand(prompt, command) == Lower(prompt) = command

\* Lines 6-17: argparse restricts the provider to its choices.
CLIInit ==
    /\ OracleInit("llama3.2", "ollama", None)
    /\ OtherProbesIdle
    /\ refine_probe = ProbeIdle
    /\ think_probe = ProbeIdle
    /\ instances = ProbeIdle
    /\ ui = ProbeIdle
    /\ \E p \in {"ollama", "lm_studio"}, e \in {None, "google"} :
         cli = [oracle_instance |-> Oracle("llama3.2", p, e),
                running |-> TRUE, sent |-> <<>>, reported |-> 0, n |-> 0,
                last |-> <<"none">>]

cliFrame == <<oracleVars, oldProbes, refine_probe, think_probe, instances, ui>>

\* One pass of the loop body (lines 23-39) for the line read by input().
CLIInput(prompt, inp) ==
    /\ cli.running
    /\ cli.n < MaxCalls
    /\ LET read == [cli EXCEPT !.n = @ + 1, !.last = prompt]
           r == Oracle_get_response(cli.oracle_instance, prompt, inp)
       IN  cli' = IF IsCommand(prompt, QuitCommand)
                  THEN [read EXCEPT !.running = FALSE]
                  ELSE IF IsCommand(prompt, ClearCommand)
                  THEN [read EXCEPT
                           !.oracle_instance = Oracle_clear_context(@)]
                  ELSE [read EXCEPT
                           !.oracle_instance = r.self,
                           !.sent = Append(@, prompt),
                           !.reported = IF r.raised THEN @ + 1 ELSE @]
    /\ UNCHANGED cliFrame

\* KeyboardInterrupt while waiting for input (lines 34-36).
CLIInterrupt ==
    /\ cli.running
    /\ cli' = [cli EXCEPT !.running = FALSE, !.last = <<"^C">>]
    /\ UNCHANGED cliFrame

CLINext ==
    \/ \E prompt \in CLILines, inp \in TurnInputs : CLIInput(prompt, inp)
    \/ CLIInterrupt

SpecCLI == CLIInit /\ [][CLINext]_vars

UpperCase(c) ==
    CASE c = "q" -> "Q" [] c = "u" -> "U" [] c = "i" -> "I" [] c = "t" -> "T"
      [] c = "c" -> "C" [] c = "l" -> "L" [] c = "e" -> "E" [] c = "a" -> "A"
      [] c = "r" -> "R" [] OTHER -> c

\* line is word in some letter case.
InAnyCase(line, word) ==
    /\ Len(line) = Len(word)
    /\ \A i \in 1..Len(word) : line[i] \in {word[i], UpperCase(word[i])}

\* C29: in the CLI loop '/clear' in any letter case empties the
\* conversation and '/quit' in any letter case ends the loop, and neither
\* is sent to the model or added to the conversation; every other input is
\* processed as exactly one get_response turn; an exception raised by a
\* turn is reported and the loop goes on with the same Oracle.
C29_CommandsAndTurnsInTheLoop ==
    [][\A line \in CLILines, inp \in TurnInputs :
         CLIInput(line, inp)
         => IF InAnyCase(line, <<"/", "q", "u", "i", "t">>)
            THEN /\ ~cli'.running
                 /\ cli'.sent = cli.sent
                 /\ cli'.oracle_instance = cli.oracle_instance
            ELSE IF InAnyCase(line, <<"/", "c", "l", "e", "a", "r">>)
            THEN /\ cli'.running
                 /\ cli'.sent = cli.sent
                 /\ cli'.oracle_instance.messages = <<>>
                 /\ ConfigOf(cli'.oracle_instance) = ConfigOf(cli.oracle_instance)
            ELSE LET r == Oracle_get_response(cli.oracle_instance, line, inp)
                 IN  /\ cli'.running
                     /\ cli'.sent = Append(cli.sent, line)
                     /\ cli'.oracle_instance = r.self
                     /\ ConfigOf(cli'.oracle_instance) = ConfigOf(cli.oracle_instance)
                     /\ cli'.reported = cli.reported + (IF r.raised THEN 1 ELSE 0)]_vars

\* A turn raised and was reported, the next turn was answered, and then
\* '/CLEAR' emptied the conversation while the loop kept running.
C29_Witness ==
    /\ cli.last = <<"/", "C", "L", "E", "A", "R">>
    /\ cli.running
    /\ cli.reported = 1
    /\ Len(cli.sent) = 2
    /\ cli.oracle_instance.messages = <<>>

====
